---- MODULE Spec2Model ----
(***************************************************************************)
(* Model of the /upload pipeline of src/app.py: save the uploaded image,   *)
(* run the detection model on the saved file, annotate, write the result   *)
(* file, upload it to Cloudinary, push a record to Firebase, insert a row  *)
(* into Supabase, send an email, respond.  Two requests are served         *)
(* concurrently by the hosting server; they share the file system, the     *)
(* wall clock and the external stores.                                     *)
(***************************************************************************)
EXTENDS Integers, Sequences, FiniteSets, TLC

VARIABLES clock, uploads, resultsDir, cloud, firebase, supabase, mailbox, req

vars == <<clock, uploads, resultsDir, cloud, firebase, supabase, mailbox, req>>

(***************************************************************************)
(* Bounds of the model.                                                    *)
(***************************************************************************)
\* The wall clock advances in ticks; MaxClock is the last tick modelled.
MaxClock == 2
\* Ticks per clock second: the clock is finer than the timestamp format.
TicksPerSecond == 2

\* The concurrent requests in flight.
Requests == {"r1", "r2"}

(***************************************************************************)
(* Process-wide configuration (read-only after start-up).                  *)
(***************************************************************************)
defect_classes ==
    {"IC-defect", "LED-defect", "Mouse-click defect", "Mouse-scrolldefect",
     "Resistor-defect", "capacitor-defect"}

\* EMAIL_RECEIVER, the default recipient.
EMAIL_RECEIVER == "default@receiver"

\* r.names: the model's label-index-to-name mapping.
names == <<"IC-defect", "LED-defect", "Resistor">>

\* Python's None for the url, and for a confidence the model does not report.
NoUrl == 0
NoConf == -1

(***************************************************************************)
(* Inputs of a request.                                                    *)
(***************************************************************************)
\* The multipart payload's "image" part (NoFile: the part is missing).
NoFile == "nofile"
Images == {"blank", "ic", "mixed", "corrupt"}

\* The optional "email" form field (NoEmail: the field is missing).
NoEmail == "noemail"
FormEmails == {NoEmail, "user@example"}

\* One box of the model's output: class index, xyxy corners (already
\* integers), confidence in thousandths (NoConf when box.conf is None).
Box(cls, x1, y1, x2, y2, conf) ==
    [cls |-> cls, xyxy |-> <<x1, y1, x2, y2>>, conf |-> conf]

\* The opaque detection model: the boxes it reports for a readable image,
\* in its native order.  "mixed" repeats a label, has a box of zero width
\* and a box without a confidence.
Detect(content) ==
    CASE content = "blank" -> <<>>
      [] content = "ic"    -> <<Box(1, 10, 10, 50, 50, 920)>>
      [] content = "mixed" -> <<Box(2, 5, 0, 20, 30, 871),
                                Box(3, 40, 40, 40, 60, NoConf),
                                Box(2, 1, 8, 9, 12, 333)>>
      [] OTHER             -> <<>>

\* An image file the model cannot decode.
Unreadable(content) == content = "corrupt"

(***************************************************************************)
(* datetime.now().strftime("%Y%m%d_%H%M%S"): the clock cut to the second.  *)
(***************************************************************************)
strftime(now) == now \div TicksPerSecond

\* Before line 91 has run there is no timestamp.
NoTimestamp == -1

(***************************************************************************)
(* The annotation loop of upload(), lines 99-113.                          *)
(***************************************************************************)
\* Line 107: float(box.conf[0]) if box.conf is not None else 0.0
ConfOf(box) == IF box.conf = NoConf THEN 0 ELSE box.conf

\* The ":.2f" of line 110: thousandths rounded to hundredths (the
\* confidences of Detect are never exactly half-way).
Fmt2(conf) == (conf + 5) \div 10

\* A variant whose defect list lost an entry.
CategoryShortList(class_name) ==
    IF class_name \in defect_classes \ {"LED-defect"}
    THEN "Defect" ELSE "Non-Defect"

\* Line 108.
Category(class_name) ==
    IF class_name \in defect_classes THEN "Defect" ELSE "Non-Defect"

\* Line 109 (BGR).
Color(category) == IF category = "Defect" THEN <<0, 0, 255>> ELSE <<0, 255, 0>>

\* Line 110.
Label(class_name, conf) == [name |-> class_name, conf2 |-> Fmt2(conf)]

\* Lines 111-112: the two drawing calls made for one box.
DrawCalls(box) ==
    LET class_name == names[box.cls]
        color      == Color(Category(class_name))
        c          == box.xyxy
    IN  << [op |-> "rectangle", pt1 |-> <<c[1], c[2]>>, pt2 |-> <<c[3], c[4]>>,
            color |-> color, text |-> Label("", 0)],
           [op |-> "putText", pt1 |-> <<c[1], c[2] - 5>>, pt2 |-> <<0, 0>>,
            color |-> color, text |-> Label(class_name, ConfOf(box))] >>

\* Line 113: detected_classes.append(class_name)
AppendClassDropRepeat(detected_classes, class_name) ==
    IF \E i \in 1..Len(detected_classes) : detected_classes[i] = class_name
    THEN detected_classes
    ELSE Append(detected_classes, class_name)

AppendClass(detected_classes, class_name) ==
    Append(detected_classes, class_name)

\* Lines 103-113: the loop over r.boxes from box i on; yields the image and
\* the list as they are after the last box.
RECURSIVE AnnotateLoop(_, _, _, _)
AnnotateLoop(boxes, i, img, detected_classes) ==
    IF i > Len(boxes)
    THEN [img |-> img, detected_classes |-> detected_classes]
    ELSE AnnotateLoop(boxes, i + 1,
                      [img EXCEPT !.drawn = @ \o DrawCalls(boxes[i])],
                      AppendClass(detected_classes, names[boxes[i].cls]))

\* Lines 100-113 for one result r: img = r.orig_img.copy(), detected_classes = [].
Annotate(result) ==
    AnnotateLoop(result.boxes, 1, [orig |-> result.orig_img, drawn |-> <<>>], <<>>)

(***************************************************************************)
(* The file system: a directory is a function from the timestamp in the    *)
(* file name to the file's content.                                        *)
(***************************************************************************)
WriteFile(dir, ts, content) ==
    [t \in DOMAIN dir \cup {ts} |-> IF t = ts THEN content ELSE dir[t]]

(***************************************************************************)
(* A request: its locals, its position in upload(), its response, and the  *)
(* history of the external calls it made (calls) and of the steps that     *)
(* raised or failed (failed).                                              *)
(***************************************************************************)
\* The identity a store assigns to what it accepted (its position in the
\* store); NoKey while the store has accepted nothing from the request.
NoKey == 0

NoResponse == [kind |-> "none", url |-> NoUrl, classes |-> <<>>]

NoResult == [orig_img |-> "", boxes |-> <<>>]

NoImg == [orig |-> "", drawn |-> <<>>]

NewRequest ==
    [pc |-> "start", image |-> NoFile, email |-> NoEmail,
     timestamp |-> NoTimestamp, result |-> NoResult, img |-> NoImg,
     detected_classes |-> <<>>, url |-> NoUrl, response |-> NoResponse,
     calls |-> <<>>, failed |-> {},
     fbKey |-> NoKey, sbKey |-> NoKey, mailKey |-> NoKey]

\* Lines 146-148: the handler's except clause; every exception raised
\* inside upload() ends the request with the error response.
RaiseSwallowed(rq, step) ==
    IF step \in {"file", "save", "model"}
    THEN [rq EXCEPT !.failed = @ \cup {step}, !.pc = "firebase"]
    ELSE [rq EXCEPT !.failed = @ \cup {step},
                    !.pc = "done",
                    !.response = [kind |-> "error", url |-> NoUrl,
                                  classes |-> <<>>]]

\* A variant whose except clause lets the exception escape: the handler
\* ends without returning a response.
RaiseEscapes(rq, step) ==
    [rq EXCEPT !.failed = @ \cup {step}, !.pc = "escaped"]

Raise(rq, step) ==
    [rq EXCEPT !.failed = @ \cup {step},
               !.pc = "done",
               !.response = [kind |-> "error", url |-> NoUrl, classes |-> <<>>]]

\* The record pushed to Firebase (lines 123-128).
Record(rq) ==
    [timestamp |-> rq.timestamp, classes |-> rq.detected_classes,
     url |-> rq.url, email |-> rq.email]

\* A variant that stamps the row with the time of the insert.
SupabaseRowFreshTimestamp(rq) ==
    [timestamp |-> strftime(clock), classes |-> rq.detected_classes,
     image_url |-> rq.url, email |-> rq.email]

\* The row given to Supabase (lines 131-136): the same values, the url
\* under the column image_url.
SupabaseRow(rq) ==
    [timestamp |-> rq.timestamp, classes |-> rq.detected_classes,
     image_url |-> rq.url, email |-> rq.email]

Called(rq, step) == Append(rq.calls, step)

(***************************************************************************)
(* Initial state: an idle server, empty directories and stores.            *)
(***************************************************************************)
Init ==
    /\ clock = 0
    /\ uploads = <<>>
    /\ resultsDir = <<>>
    /\ cloud = <<>>
    /\ firebase = <<>>
    /\ supabase = <<>>
    /\ mailbox = <<>>
    /\ req = [r \in Requests |-> NewRequest]

Tick ==
    /\ clock < MaxClock
    /\ clock' = clock + 1
    /\ UNCHANGED <<uploads, resultsDir, cloud, firebase, supabase, mailbox, req>>

\* Line 89 with no "image" part in the payload: request.files raises.
ReceiveNoFile(r) ==
    /\ req[r].pc = "start"
    /\ req' = [req EXCEPT ![r] = Raise(@, "file")]
    /\ UNCHANGED <<clock, uploads, resultsDir, cloud, firebase, supabase, mailbox>>

\* Lines 89-95: read the inputs, take the timestamp, save the upload.
Receive(r) ==
    /\ req[r].pc = "start"
    /\ \E image \in Images, form \in FormEmails :
         LET email     == IF form = NoEmail THEN EMAIL_RECEIVER ELSE form
             timestamp == strftime(clock)
             rq        == [req[r] EXCEPT !.image = image, !.email = email,
                                         !.timestamp = timestamp]
         IN  \/ /\ uploads' = WriteFile(uploads, timestamp, image)
                /\ req' = [req EXCEPT ![r] = [rq EXCEPT !.pc = "saved"]]
             \/ /\ req' = [req EXCEPT ![r] = Raise(rq, "save")]
                /\ UNCHANGED uploads
    /\ UNCHANGED <<clock, resultsDir, cloud, firebase, supabase, mailbox>>

\* Line 97: the model reads the file at image_path.
Infer(r) ==
    /\ req[r].pc = "saved"
    /\ LET content == uploads[req[r].timestamp]
       IN  \/ /\ ~Unreadable(content)
              /\ req' = [req EXCEPT ![r] =
                           [@ EXCEPT !.pc = "annotate",
                                     !.result = [orig_img |-> content,
                                                 boxes |-> Detect(content)]]]
           \/ req' = [req EXCEPT ![r] = Raise(@, "model")]
    /\ UNCHANGED <<clock, uploads, resultsDir, cloud, firebase, supabase, mailbox>>

\* A variant that ends the request early when nothing was detected.
AnnotateAndWriteSkipEmpty(r) ==
    /\ req[r].pc = "annotate"
    /\ LET a == Annotate(req[r].result)
       IN  /\ req' = [req EXCEPT ![r] =
                        [@ EXCEPT !.pc = IF req[r].result.boxes = <<>>
                                         THEN "respond" ELSE "upload",
                                  !.img = a.img,
                                  !.detected_classes = a.detected_classes]]
           /\ resultsDir' = WriteFile(resultsDir, req[r].timestamp, a.img)
    /\ UNCHANGED <<clock, uploads, cloud, firebase, supabase, mailbox>>

\* Lines 99-117: annotate the result and write the result file.
AnnotateAndWrite(r) ==
    /\ req[r].pc = "annotate"
    /\ LET a == Annotate(req[r].result)
       IN  /\ req' = [req EXCEPT ![r] =
                        [@ EXCEPT !.pc = "upload", !.img = a.img,
                                  !.detected_classes = a.detected_classes]]
           /\ resultsDir' = WriteFile(resultsDir, req[r].timestamp, a.img)
    /\ UNCHANGED <<clock, uploads, cloud, firebase, supabase, mailbox>>

\* Lines 77-83 called from line 119: upload the file at result_path; a
\* failure is caught inside and None comes back.
UploadToCloudinary(r) ==
    /\ req[r].pc = "upload"
    /\ \/ /\ cloud' = Append(cloud, resultsDir[req[r].timestamp])
          /\ req' = [req EXCEPT ![r] =
                       [@ EXCEPT !.pc = "firebase", !.url = Len(cloud) + 1,
                                 !.calls = Called(req[r], "upload")]]
       \/ /\ req' = [req EXCEPT ![r] =
                       [@ EXCEPT !.pc = "firebase", !.url = NoUrl,
                                 !.calls = Called(req[r], "upload"),
                                 !.failed = @ \cup {"upload"}]]
          /\ UNCHANGED cloud
    /\ UNCHANGED <<clock, uploads, resultsDir, firebase, supabase, mailbox>>

\* A variant that pushes a second time when the first push raised.
FirebasePushRetry(r) ==
    /\ req[r].pc = "firebase"
    /\ LET rq == [req[r] EXCEPT !.calls = Called(req[r], "firebase")]
       IN  \/ /\ firebase' = Append(firebase, Record(rq))
              /\ req' = [req EXCEPT ![r] =
                           [rq EXCEPT !.pc = "supabase",
                                      !.fbKey = Len(firebase) + 1]]
           \/ /\ req' = [req EXCEPT ![r] =
                           IF "firebase" \in rq.failed
                           THEN Raise(rq, "firebase")
                           ELSE [rq EXCEPT !.failed = @ \cup {"firebase"}]]
              /\ UNCHANGED firebase
    /\ UNCHANGED <<clock, uploads, resultsDir, cloud, supabase, mailbox>>

\* Lines 122-128: push to Firebase; an exception is not caught here.
FirebasePush(r) ==
    /\ req[r].pc = "firebase"
    /\ LET rq == [req[r] EXCEPT !.calls = Called(req[r], "firebase")]
       IN  \/ /\ firebase' = Append(firebase, Record(rq))
              /\ req' = [req EXCEPT ![r] =
                           [rq EXCEPT !.pc = "supabase",
                                      !.fbKey = Len(firebase) + 1]]
           \/ /\ req' = [req EXCEPT ![r] = Raise(rq, "firebase")]
              /\ UNCHANGED firebase
    /\ UNCHANGED <<clock, uploads, resultsDir, cloud, supabase, mailbox>>

\* Lines 131-136: insert into Supabase; an exception is not caught here.
SupabaseInsert(r) ==
    /\ req[r].pc = "supabase"
    /\ LET rq == [req[r] EXCEPT !.calls = Called(req[r], "supabase")]
       IN  \/ /\ supabase' = Append(supabase, SupabaseRow(rq))
              /\ req' = [req EXCEPT ![r] =
                           [rq EXCEPT !.pc = "email",
                                      !.sbKey = Len(supabase) + 1]]
           \/ /\ req' = [req EXCEPT ![r] = Raise(rq, "supabase")]
              /\ UNCHANGED supabase
    /\ UNCHANGED <<clock, uploads, resultsDir, cloud, firebase, mailbox>>

\* Lines 73-74: send_email's own except clause; nothing leaves send_email.
EmailFailedRaises(rq) == Raise(rq, "notify")

EmailFailed(rq) == [rq EXCEPT !.failed = @ \cup {"notify"}, !.pc = "respond"]

\* Lines 60-74 called from lines 139-143.
SendEmail(r) ==
    /\ req[r].pc = "email"
    /\ LET rq == [req[r] EXCEPT !.calls = Called(req[r], "notify")]
       IN  \/ /\ mailbox' = Append(mailbox,
                     [to |-> rq.email, timestamp |-> rq.timestamp,
                      detected |-> rq.detected_classes, url |-> rq.url])
              /\ req' = [req EXCEPT ![r] =
                           [rq EXCEPT !.pc = "respond",
                                      !.mailKey = Len(mailbox) + 1]]
           \/ /\ req' = [req EXCEPT ![r] = EmailFailed(rq)]
              /\ UNCHANGED mailbox
    /\ UNCHANGED <<clock, uploads, resultsDir, cloud, firebase, supabase>>

\* Line 145: the success response.
Respond(r) ==
    /\ req[r].pc = "respond"
    /\ req' = [req EXCEPT ![r] =
                 [@ EXCEPT !.pc = "done",
                           !.response = [kind |-> "ok", url |-> req[r].url,
                                         classes |-> req[r].detected_classes]]]
    /\ UNCHANGED <<clock, uploads, resultsDir, cloud, firebase, supabase, mailbox>>

Next ==
    \/ Tick
    \/ \E r \in Requests : ReceiveNoFile(r)
    \/ \E r \in Requests : Receive(r)
    \/ \E r \in Requests : Infer(r)
    \/ \E r \in Requests : AnnotateAndWrite(r)
    \/ \E r \in Requests : UploadToCloudinary(r)
    \/ \E r \in Requests : FirebasePush(r)
    \/ \E r \in Requests : SupabaseInsert(r)
    \/ \E r \in Requests : SendEmail(r)
    \/ \E r \in Requests : Respond(r)

Spec == Init /\ [][Next]_vars

\* One step of the handler thread serving request r.
RequestStep(r) ==
    \/ ReceiveNoFile(r)
    \/ Receive(r)
    \/ Infer(r)
    \/ AnnotateAndWrite(r)
    \/ UploadToCloudinary(r)
    \/ FirebasePush(r)
    \/ SupabaseInsert(r)
    \/ SendEmail(r)
    \/ Respond(r)

\* The hosting server runs the handler of every accepted request to its
\* return: a handler that can take a step eventually takes one.
FairSpec == Spec /\ \A r \in Requests : WF_vars(RequestStep(r))

(***************************************************************************)
(* Vocabulary of the properties.                                           *)
(***************************************************************************)
\* The steps whose failure is a decode or inference failure.
Fatal == {"file", "save", "model"}

\* Request r made the external call `step` (whatever its outcome).
InCalls(r, step) == \E i \in 1..Len(req[r].calls) : req[r].calls[i] = step

\* Detection succeeded for r: the model returned its result.
Detected(r) ==
    /\ req[r].pc \notin {"start", "saved"}
    /\ req[r].failed \cap Fatal = {}

\* The annotation loop of r has run.
Annotated(r) == req[r].img # NoImg

\* The labels of a sequence of boxes, read off position by position.
ModelLabels(boxes) == [i \in 1..Len(boxes) |-> names[boxes[i].cls]]

\* A store (a sequence of records) holds the record rec.
Holds(store, rec) == \E i \in 1..Len(store) : store[i] = rec

(***************************************************************************)
(* C1: Record Sink independence.  For every request that reaches           *)
(* persistence, a failed Firebase push does not prevent the Supabase       *)
(* insert from being invoked, and a failed Supabase insert does not undo   *)
(* the record Firebase already accepted.  The first half fails: the        *)
(* exception of the push leaves upload() through its except clause.        *)
(***************************************************************************)
C1_SinkIndependence ==
    \A r \in Requests :
        /\ (req[r].pc = "done" /\ "firebase" \in req[r].failed)
              => InCalls(r, "supabase")
        /\ "supabase" \in req[r].failed => Holds(firebase, Record(req[r]))

(***************************************************************************)
(* C2: a Record Sink failure is non-fatal.  If detection succeeded and a   *)
(* persist call failed, Notify is still attempted and the request ends     *)
(* with the success response carrying classes and url.  Fails: the request *)
(* ends with the error response and Notify is never called.                *)
(***************************************************************************)
C2_SinkFailureNonFatal ==
    \A r \in Requests :
        (/\ req[r].pc = "done"
         /\ Detected(r)
         /\ req[r].failed \cap {"firebase", "supabase"} # {})
        => /\ InCalls(r, "notify")
           /\ req[r].response = [kind |-> "ok", url |-> req[r].url,
                                 classes |-> req[r].detected_classes]

(***************************************************************************)
(* C3: short-circuit on fatal failure.  If reading or saving the upload or *)
(* the model invocation throws, the request ends with the error response   *)
(* and makes no Upload, no persist and no Notify call.                     *)
(***************************************************************************)
C3_ShortCircuit ==
    \A r \in Requests :
        req[r].failed \cap Fatal # {}
        => /\ req[r].pc = "done"
           /\ req[r].response.kind = "error"
           /\ req[r].calls = <<>>

C3_Witness ==
    \E r \in Requests :
        /\ "model" \in req[r].failed
        /\ req[r].response.kind = "error"
        /\ \E q \in Requests : "save" \in req[q].failed /\ req[q].pc = "done"

(***************************************************************************)
(* C4: an error response is returned only when decode or inference failed, *)
(* and then nothing was uploaded, persisted or sent for the request.       *)
(* Fails: a raising sink gives the error response after the upload (and,   *)
(* for Supabase, after the Firebase record) went through.                  *)
(***************************************************************************)
C4_ErrorOnlyWhenFatal ==
    \A r \in Requests :
        req[r].response.kind = "error"
        => /\ req[r].failed \cap Fatal # {}
           /\ req[r].calls = <<>>

(***************************************************************************)
(* C5: upload degradation.  If the artifact upload fails, the helper       *)
(* returns None, the pipeline continues through both persists and Notify   *)
(* with an absent url, and the response is the success response with the   *)
(* correct classes and url null.  Fails when a sink raises afterwards.     *)
(***************************************************************************)
C5_UploadDegradation ==
    \A r \in Requests :
        (req[r].pc = "done" /\ "upload" \in req[r].failed)
        => /\ req[r].url = NoUrl
           /\ InCalls(r, "firebase")
           /\ InCalls(r, "supabase")
           /\ InCalls(r, "notify")
           /\ req[r].response = [kind |-> "ok", url |-> NoUrl,
                                 classes |-> ModelLabels(req[r].result.boxes)]

(***************************************************************************)
(* C6: Notifier isolation.  If sending the email fails, the failure does   *)
(* not leave send_email: the request goes on to the success response, with *)
(* the classes of its detections and the url the upload returned (the url  *)
(* of a stored blob when the upload succeeded).                            *)
(***************************************************************************)
C6_NotifierIsolation ==
    \A r \in Requests :
        "notify" \in req[r].failed
        => /\ req[r].pc \in {"respond", "done"}
           /\ req[r].pc = "done"
                => req[r].response =
                      [kind |-> "ok", url |-> req[r].url,
                       classes |-> ModelLabels(req[r].result.boxes)]
           /\ "upload" \notin req[r].failed => req[r].url \in 1..Len(cloud)

C6_Witness ==
    \E r \in Requests :
        /\ "notify" \in req[r].failed
        /\ req[r].pc = "done"
        /\ req[r].response.url # NoUrl
        /\ req[r].response.classes # <<>>

(***************************************************************************)
(* C7: temporary-file cleanup.  By the time the response is returned the   *)
(* saved upload and the rendered result file of the request are gone.      *)
(* Fails: upload() never removes a file.                                   *)
(***************************************************************************)
C7_TempFilesRemoved ==
    \A r \in Requests :
        (req[r].pc = "done" /\ req[r].timestamp # NoTimestamp)
        => /\ req[r].timestamp \notin DOMAIN uploads
           /\ req[r].timestamp \notin DOMAIN resultsDir

(***************************************************************************)
(* C8: request isolation under concurrency.  Whatever the interleaving of  *)
(* two requests, the classes returned, the image uploaded and the records  *)
(* persisted for a request come from that request's own image.  Fails:     *)
(* two requests of the same clock second share their file names.           *)
(***************************************************************************)
C8_RequestIsolation ==
    \A r \in Requests :
        /\ req[r].response.kind = "ok"
              => req[r].response.classes = ModelLabels(Detect(req[r].image))
        /\ (InCalls(r, "upload") /\ req[r].url # NoUrl)
              => cloud[req[r].url].orig = req[r].image
        /\ InCalls(r, "firebase")
              => req[r].detected_classes = ModelLabels(Detect(req[r].image))

C10_OneLabelPerDetection ==
    \A r \in Requests :
        Annotated(r)
        => /\ Len(req[r].detected_classes) = Len(req[r].result.boxes)
           /\ \A i \in 1..Len(req[r].result.boxes) :
                 req[r].detected_classes[i] = names[req[r].result.boxes[i].cls]
           /\ req[r].response.kind = "ok"
                => req[r].response.classes = ModelLabels(req[r].result.boxes)

C10_Witness ==
    \E r \in Requests :
        /\ req[r].response.kind = "ok"
        /\ Len(req[r].response.classes) = 3
        /\ req[r].response.classes[1] = req[r].response.classes[3]
        /\ req[r].response.classes[1] # req[r].response.classes[2]

(***************************************************************************)
(* C11: every accepted /upload request eventually receives exactly one     *)
(* definitive response, the success response or the error response,        *)
(* whatever combination of steps fails: under FairSpec every request       *)
(* reaches its return with a response, and a response once given is never  *)
(* replaced nor followed by another step of the request.                   *)
(***************************************************************************)
Responded(r) == req[r].response.kind \in {"ok", "error"}

C11_DefinitiveResponse ==
    /\ \A r \in Requests : <>(req[r].pc = "done" /\ Responded(r))
    /\ [][\A r \in Requests :
            /\ Responded(r) => req'[r] = req[r]
            /\ Responded(r)' => req'[r].pc = "done"]_vars

C11_Witness ==
    \E r, q \in Requests :
        /\ req[r].pc = "done" /\ req[r].response.kind = "ok"
        /\ req[r].failed = {"upload", "notify"}
        /\ req[q].pc = "done" /\ req[q].response.kind = "error"
        /\ req[q].failed = {"supabase"}

(***************************************************************************)
(* C12: classification is total and depends only on the label.  A          *)
(* detection is Defect exactly when its class_label is in the fixed        *)
(* defect-label set and Non-Defect for every other label, labels the       *)
(* model never produced included; the colour of both drawing calls of a    *)
(* box is the colour of its category, whatever its corners and confidence. *)
(***************************************************************************)
\* Labels outside the model's label map, among them near misses of defect
\* labels.
UnseenLabels == {"brand-new-part", "ic-defect", "IC-defect ", "defect", ""}

DefectColor == <<0, 0, 255>>
NonDefectColor == <<0, 255, 0>>

C12_ClassificationByLabel ==
    /\ \A l \in UnseenLabels \cup {names[i] : i \in 1..Len(names)}
                             \cup defect_classes :
          /\ Category(l) \in {"Defect", "Non-Defect"}
          /\ Category(l) = "Defect" <=> l \in defect_classes
    /\ \A l \in UnseenLabels : Category(l) = "Non-Defect"
    /\ \A r \in Requests :
          Annotated(r)
          => /\ Len(req[r].img.drawn) = 2 * Len(req[r].result.boxes)
             /\ \A i \in 1..Len(req[r].result.boxes) :
                  LET l     == names[req[r].result.boxes[i].cls]
                      color == IF l \in defect_classes
                               THEN DefectColor ELSE NonDefectColor
                  IN  /\ req[r].img.drawn[2 * i - 1].color = color
                      /\ req[r].img.drawn[2 * i].color = color

C12_Witness ==
    \E r \in Requests :
        /\ Annotated(r)
        /\ \E i, j \in 1..Len(req[r].img.drawn) :
              /\ req[r].img.drawn[i].color = DefectColor
              /\ req[r].img.drawn[j].color = NonDefectColor

(***************************************************************************)
(* C13: one request, one fan-out.  For every request that passes           *)
(* detection Upload is attempted exactly once, each sink's persist and     *)
(* Notify are invoked at most once, in the order Upload, Firebase push,    *)
(* Supabase insert, Notify, and all of it before the response: after every *)
(* step the call history of a request is a prefix of that order, starts    *)
(* with the upload once annotation is behind it, each store holds exactly  *)
(* one entry per accepted call, and a responded request calls nothing.     *)
(***************************************************************************)
FanOut == <<"upload", "firebase", "supabase", "notify">>

IsPrefix(s, t) == Len(s) <= Len(t) /\ \A i \in 1..Len(s) : s[i] = t[i]

\* The requests whose call `step` was made and accepted.
Accepted(step) ==
    {r \in Requests : InCalls(r, step) /\ step \notin req[r].failed}

OneFanOut ==
    /\ \A r \in Requests :
          /\ IsPrefix(req[r].calls, FanOut)
          /\ (Detected(r) /\ req[r].pc \notin {"annotate", "upload"})
                => (req[r].calls # <<>> /\ req[r].calls[1] = "upload")
          /\ req[r].response.kind = "ok" => req[r].calls = FanOut
          /\ Responded(r) => req[r].pc = "done"
    /\ Len(cloud) = Cardinality(Accepted("upload"))
    /\ Len(firebase) = Cardinality(Accepted("firebase"))
    /\ Len(supabase) = Cardinality(Accepted("supabase"))
    /\ Len(mailbox) = Cardinality(Accepted("notify"))

C13_OneFanOut ==
    [][/\ OneFanOut'
       /\ \A r \in Requests :
             Responded(r) => req'[r].calls = req[r].calls]_vars

C13_Witness ==
    \E r, q \in Requests :
        /\ req[r].response.kind = "ok"
        /\ req[r].calls = FanOut
        /\ req[q].response.kind = "ok"
        /\ r # q
        /\ Len(firebase) = 2
        /\ Len(mailbox) = 1

(***************************************************************************)
(* C14: cross-sink agreement.  Whenever both stores hold a record of the   *)
(* same request, the two records carry the same timestamp, the same        *)
(* classes, the same image url and the same requester email, and these     *)
(* classes and url are the ones of the request's success response and of   *)
(* its email.                                                              *)
(***************************************************************************)
C14_CrossSinkAgreement ==
    \A r \in Requests :
        (req[r].fbKey # NoKey /\ req[r].sbKey # NoKey)
        => LET f == firebase[req[r].fbKey]
               s == supabase[req[r].sbKey]
           IN  /\ f.timestamp = s.timestamp
               /\ f.classes = s.classes
               /\ f.url = s.image_url
               /\ f.email = s.email
               /\ req[r].response.kind = "ok"
                    => /\ req[r].response.classes = s.classes
                       /\ req[r].response.url = s.image_url
               /\ req[r].mailKey # NoKey
                    => /\ mailbox[req[r].mailKey].detected = f.classes
                       /\ mailbox[req[r].mailKey].url = f.url
                       /\ mailbox[req[r].mailKey].to = s.email

C14_Witness ==
    \E r \in Requests :
        /\ req[r].fbKey # NoKey /\ req[r].sbKey # NoKey /\ req[r].mailKey # NoKey
        /\ req[r].fbKey # req[r].sbKey
        /\ req[r].response.kind = "ok"
        /\ req[r].response.classes # <<>>
        /\ req[r].timestamp # strftime(clock)

(***************************************************************************)
(* C15: malformed-box policy.  For a detection whose box has x1 >= x2 or   *)
(* y1 >= y2, annotation makes no rectangle and no label call for it but    *)
(* still appends its class_label.  Fails: lines 111-112 draw every box     *)
(* without looking at its corners (the label is appended, as claimed).     *)
(***************************************************************************)
Malformed(box) == box.xyxy[1] >= box.xyxy[3] \/ box.xyxy[2] >= box.xyxy[4]

C15_MalformedBoxSkipped ==
    \A r \in Requests :
        Annotated(r)
        => \A i \in 1..Len(req[r].result.boxes) :
              LET box == req[r].result.boxes[i]
                  c   == box.xyxy
              IN  Malformed(box)
                  => /\ ~\E k \in 1..Len(req[r].img.drawn) :
                           /\ req[r].img.drawn[k].op = "rectangle"
                           /\ req[r].img.drawn[k].pt1 = <<c[1], c[2]>>
                           /\ req[r].img.drawn[k].pt2 = <<c[3], c[4]>>
                     /\ ~\E k \in 1..Len(req[r].img.drawn) :
                           /\ req[r].img.drawn[k].op = "putText"
                           /\ req[r].img.drawn[k].pt1 = <<c[1], c[2] - 5>>
                     /\ Len(req[r].detected_classes) = Len(req[r].result.boxes)
                     /\ req[r].detected_classes[i] = names[box.cls]

====
